---- MODULE Spec2Model ----
(***************************************************************************)
(* Model of src/app.py: the "Top Movies Analysis" Dash application.        *)
(*                                                                         *)
(* The module-level code loads the CSV, sorts it by Year and derives the   *)
(* dropdown options; app.layout builds the filter controls with their      *)
(* defaults; the callback update_graphs recomputes the two figures from    *)
(* the four input values every time one of them changes.                   *)
(*                                                                         *)
(* A pandas DataFrame is a sequence of rows, each carrying its index label *)
(* (idx, the 0-based position of the row in the CSV file).  A pandas       *)
(* Series is a sequence of [idx, val] pairs.  A float is a tagged record,  *)
(* so that NaN (an absent score) and -inf are values of their own and the  *)
(* comparison is the IEEE one pandas applies.  A date is a year and a      *)
(* position inside the year (0 is January 1st).  The Title column is only  *)
(* carried to the hover text and is not modelled.                          *)
(***************************************************************************)
EXTENDS Integers, Sequences, FiniteSets

\* ------------------------------------------------------------------------
\* Bounds of the model
\* ------------------------------------------------------------------------
MaxRows == 2

\* Representative values of the columns and of the callback inputs.  The code
\* only compares them, so one value on each side of every comparison is kept.
Years == {2000, 2010}
Scores == {1}
Oscars == {0, 1}

\* ------------------------------------------------------------------------
\* Values
\* ------------------------------------------------------------------------
NaN == [k |-> "nan", v |-> 0]
NegInf == [k |-> "ninf", v |-> 0]
Num(n) == [k |-> "num", v |-> n]

Date(y, d) == [y |-> y, d |-> d]

\* pd.to_datetime(df["Year"], format="%Y"): January 1st of the year.
to_datetime(year) == Date(year, 0)

\* Comparison of two timestamps.
DateGe(a, b) == a.y > b.y \/ (a.y = b.y /\ a.d >= b.d)
DateLe(a, b) == DateGe(b, a)

\* Float comparison `a >= b` as pandas evaluates it: any comparison with
\* NaN is False; -inf is below every number.
FloatGt(a, b) ==
    IF a.k = "nan" \/ b.k = "nan" THEN FALSE
    ELSE IF b.k = "ninf" THEN a.k # "ninf"
    ELSE IF a.k = "ninf" THEN FALSE
    ELSE a.v > b.v
FloatGeFillna(a, b) ==
    LET filled == IF a.k = "nan" THEN Num(0) ELSE a
    IN  IF b.k = "nan" THEN FALSE
        ELSE IF b.k = "ninf" THEN TRUE
        ELSE IF filled.k = "ninf" THEN FALSE
        ELSE filled.v >= b.v
FloatGe(a, b) ==
    IF a.k = "nan" \/ b.k = "nan" THEN FALSE
    ELSE IF b.k = "ninf" THEN TRUE
    ELSE IF a.k = "ninf" THEN FALSE
    ELSE a.v >= b.v

\* ------------------------------------------------------------------------
\* Input domains
\* ------------------------------------------------------------------------
ScoreValues == {NaN} \cup {Num(n) : n \in Scores}
OscarValues == Oscars
CsvRows == [Year : Years, Score : ScoreValues, Oscars : OscarValues]
CsvFiles == UNION {[1..n -> CsvRows] : n \in 0..MaxRows}

\* Dates the picker can send: January 1st of each year, and a day after
\* January 1st of the first year.
Dates == {to_datetime(y) : y \in Years} \cup {Date(2000, 1)}
ScoreInputs == {NegInf} \cup {Num(n) : n \in Scores \cup {n + 1 : n \in Scores}}
OscarInputs == Oscars

\* ------------------------------------------------------------------------
\* State
\* ------------------------------------------------------------------------
VARIABLES
    pc,                  \* "load", "loaded", "laidout", "serving", "failed"
    csv,                 \* the rows of top_100_movies_full_best_effort.csv
    data,                \* module global `data`
    metacritic_score,    \* module global `metacritic_score`
    oscar_wins,          \* module global `oscar_wins`
    layout,              \* the date picker bounds of app.layout
    inputs,              \* current values of the four callback Inputs
    filtered_metacritic, \* update_graphs local, at return
    filtered_oscars,     \* update_graphs local, at return
    scatter_figure,      \* first Output
    histogram_figure     \* second Output

vars == <<pc, csv, data, metacritic_score, oscar_wins, layout, inputs,
          filtered_metacritic, filtered_oscars, scatter_figure,
          histogram_figure>>

\* ------------------------------------------------------------------------
\* pandas helpers
\* ------------------------------------------------------------------------
SetMin(S) == CHOOSE m \in S : \A x \in S : m <= x

RECURSIVE SortSet(_)
SortSet(S) == IF S = {} THEN <<>>
              ELSE LET m == SetMin(S) IN <<m>> \o SortSet(S \ {m})

Range(s) == {s[i] : i \in DOMAIN s}

\* df[column]: the Series of one column, index labels kept.
Column(df, c) == [i \in DOMAIN df |-> [idx |-> df[i].idx, val |-> df[i][c]]]

Values(series) == [i \in DOMAIN series |-> series[i].val]

\* pd.read_csv(...).assign(Date=...): rows labelled 0..n-1 in file order.
read_csv(file) ==
    [i \in DOMAIN file |->
        [idx |-> i - 1, Year |-> file[i].Year, Date |-> to_datetime(file[i].Year),
         Score |-> file[i].Score, Oscars |-> file[i].Oscars]]

\* DataFrame.sort_values(by="Year") with the default kind="quicksort",
\* which is not a stable sort: every arrangement of the rows that is
\* ascending in Year is a possible result.
SortedByYear(df) == \A i, j \in DOMAIN df : i < j => df[i].Year <= df[j].Year
sort_values(df) ==
    {s \in {[i \in DOMAIN df |-> df[p[i]]] :
                p \in {q \in [DOMAIN df -> DOMAIN df] :
                          \A a, b \in DOMAIN df : a # b => q[a] # q[b]}} :
        SortedByYear(s)}

\* Series.dropna()
dropna(series) == SelectSeq(series, LAMBDA e : e.val.k # "nan")

\* data["Metacritic Score"].dropna().sort_values().unique()
ScoreOptions(df) ==
    LET present == {e.val.v : e \in Range(dropna(Column(df, "Score")))}
        sorted == SortSet(present)
    IN  [i \in DOMAIN sorted |-> Num(sorted[i])]

\* data["Oscars Won"].sort_values().unique()
OscarOptions(df) == SortSet(Range(Values(Column(df, "Oscars"))))

\* Series.value_counts(): the number of occurrences of each distinct value.
nunique_per_key(series) == [k \in Range(Values(series)) |-> 1]
value_counts(series) ==
    [k \in Range(Values(series)) |->
        Cardinality({i \in DOMAIN series : series[i].val = k})]

\* Series.sort_index() of a value_counts() result: ascending by key.
sort_index_descending(counts) ==
    LET keys == SortSet(DOMAIN counts)
        n == Len(keys)
    IN  [i \in DOMAIN keys |->
            [idx |-> keys[n + 1 - i], val |-> counts[keys[n + 1 - i]]]]
sort_index(counts) ==
    LET keys == SortSet(DOMAIN counts)
    IN  [i \in DOMAIN keys |-> [idx |-> keys[i], val |-> counts[keys[i]]]]

Index(series) == [i \in DOMAIN series |-> series[i].idx]

\* ------------------------------------------------------------------------
\* The three SelectSeq() predicates of update_graphs
\* ------------------------------------------------------------------------
DateInRangeOr(row, start_date, end_date) ==
    DateGe(row.Date, start_date) \/ DateLe(row.Date, end_date)
DateInRange(row, start_date, end_date) ==
    DateGe(row.Date, start_date) /\ DateLe(row.Date, end_date)

ScoreAtMost(row, score) == FloatGe(score, row.Score)
ScoreAtLeast(row, score) == FloatGe(row.Score, score)

OscarsAtLeastScored(row, wins) == row.Oscars >= wins /\ row.Score.k # "nan"
OscarsAtLeast(row, wins) == row.Oscars >= wins

\* ------------------------------------------------------------------------
\* Startup
\* ------------------------------------------------------------------------
NoFigure == [x |-> <<>>, y |-> <<>>]
NoInputs == [score |-> NegInf, oscars |-> 0,
             start_date |-> Date(0, 0), end_date |-> Date(0, 0)]
NoLayout == [min_date_allowed |-> Date(0, 0), max_date_allowed |-> Date(0, 0)]

Init ==
    /\ pc = "load"
    /\ csv \in CsvFiles
    /\ data = <<>>
    /\ metacritic_score = <<>>
    /\ oscar_wins = <<>>
    /\ layout = NoLayout
    /\ inputs = NoInputs
    /\ filtered_metacritic = <<>>
    /\ filtered_oscars = <<>>
    /\ scatter_figure = NoFigure
    /\ histogram_figure = NoFigure

\* Lines 51-60: load, sort and derive the dropdown options.
LoadData ==
    /\ pc = "load"
    /\ data' \in sort_values(read_csv(csv))
    /\ metacritic_score' = ScoreOptions(data')
    /\ oscar_wins' = OscarOptions(data')
    /\ pc' = "loaded"
    /\ UNCHANGED <<csv, layout, inputs, filtered_metacritic, filtered_oscars,
                   scatter_figure, histogram_figure>>

\* data["Date"].min() / .max()
DateMin(df) ==
    CHOOSE m \in Range(Values(Column(df, "Date"))) :
        \A x \in Range(Values(Column(df, "Date"))) : DateLe(m, x)
DateMax(df) ==
    CHOOSE m \in Range(Values(Column(df, "Date"))) :
        \A x \in Range(Values(Column(df, "Date"))) : DateGe(m, x)

\* The builtin min() raises ValueError on an empty sequence.
MinRaises(options) == Len(options) = 0

\* Lines 79-173: app.layout.  The first dropdown's default is
\* min(metacritic_score); the exception ends the process.
Layout ==
    /\ pc = "loaded"
    /\ IF MinRaises(metacritic_score)
       THEN /\ pc' = "failed"
            /\ UNCHANGED <<layout, inputs>>
       ELSE /\ pc' = "laidout"
            /\ layout' = [min_date_allowed |-> DateMin(data),
                          max_date_allowed |-> DateMax(data)]
            /\ inputs' = [score |-> Num(SetMin({o.v : o \in Range(metacritic_score)})),
                          oscars |-> SetMin(Range(oscar_wins)),
                          start_date |-> DateMin(data),
                          end_date |-> DateMax(data)]
    /\ UNCHANGED <<csv, data, metacritic_score, oscar_wins, filtered_metacritic,
                   filtered_oscars, scatter_figure, histogram_figure>>

\* ------------------------------------------------------------------------
\* The callback
\* ------------------------------------------------------------------------
\* DataFrame.query (expr) keeps, in order, the rows for which expr is true:
\* SelectSeq.

update_graphs_rederives(score, wins, start_date, end_date) ==
    LET date_filtered ==
            SelectSeq(data, LAMBDA r : DateInRange(r, start_date, end_date))
        by_score == SelectSeq(date_filtered, LAMBDA r : ScoreAtLeast(r, score))
        by_oscars == SelectSeq(date_filtered, LAMBDA r : OscarsAtLeast(r, wins))
        counts == sort_index(value_counts(Column(by_oscars, "Oscars")))
    IN  /\ filtered_metacritic' = by_score
        /\ filtered_oscars' = by_oscars
        /\ scatter_figure' = [x |-> Column(by_score, "Date"),
                              y |-> Column(by_score, "Score")]
        /\ histogram_figure' = [x |-> Index(counts), y |-> Values(counts)]
        /\ metacritic_score' = ScoreOptions(by_score)
        /\ oscar_wins' = OscarOptions(by_oscars)
        /\ UNCHANGED <<csv, data, layout>>

\* Lines 184-262.  The parameters are locals of the function: the module
\* globals of the same names are not assigned.
update_graphs(score, wins, start_date, end_date) ==
    LET date_filtered ==
            SelectSeq(data, LAMBDA r : DateInRange(r, start_date, end_date))
        by_score == SelectSeq(date_filtered, LAMBDA r : ScoreAtLeast(r, score))
        by_oscars == SelectSeq(date_filtered, LAMBDA r : OscarsAtLeast(r, wins))
        counts == sort_index(value_counts(Column(by_oscars, "Oscars")))
    IN  /\ filtered_metacritic' = by_score
        /\ filtered_oscars' = by_oscars
        /\ scatter_figure' = [x |-> Column(by_score, "Date"),
                              y |-> Column(by_score, "Score")]
        /\ histogram_figure' = [x |-> Index(counts), y |-> Values(counts)]
        /\ UNCHANGED <<csv, data, metacritic_score, oscar_wins, layout>>

\* The page is opened: Dash calls the callback with the layout defaults.
PageLoad ==
    /\ pc = "laidout"
    /\ pc' = "serving"
    /\ UNCHANGED inputs
    /\ update_graphs(inputs.score, inputs.oscars, inputs.start_date, inputs.end_date)

\* One of the four Inputs changes; the callback runs with all four values.
ChangeScore ==
    /\ pc = "serving"
    /\ \E v \in ScoreInputs :
        /\ inputs' = [inputs EXCEPT !.score = v]
        /\ update_graphs(v, inputs.oscars, inputs.start_date, inputs.end_date)
    /\ UNCHANGED pc

ChangeOscars ==
    /\ pc = "serving"
    /\ \E v \in OscarInputs :
        /\ inputs' = [inputs EXCEPT !.oscars = v]
        /\ update_graphs(inputs.score, v, inputs.start_date, inputs.end_date)
    /\ UNCHANGED pc

ChangeStartDate ==
    /\ pc = "serving"
    /\ \E v \in Dates :
        /\ inputs' = [inputs EXCEPT !.start_date = v]
        /\ update_graphs(inputs.score, inputs.oscars, v, inputs.end_date)
    /\ UNCHANGED pc

ChangeEndDate ==
    /\ pc = "serving"
    /\ \E v \in Dates :
        /\ inputs' = [inputs EXCEPT !.end_date = v]
        /\ update_graphs(inputs.score, inputs.oscars, inputs.start_date, v)
    /\ UNCHANGED pc

Next ==
    \/ LoadData
    \/ Layout
    \/ PageLoad
    \/ ChangeScore
    \/ ChangeOscars
    \/ ChangeStartDate
    \/ ChangeEndDate

Spec == Init /\ [][Next]_vars

\* ------------------------------------------------------------------------
\* Properties
\* ------------------------------------------------------------------------
Serving == pc = "serving"

Labels(df) == {df[i].idx : i \in DOMAIN df}

DateBefore(a, b) == a.y < b.y \/ (a.y = b.y /\ a.d < b.d)
InClosedRange(d, from, to) == ~DateBefore(d, from) /\ ~DateBefore(to, d)
ScorePresent(r) == r.Score.k = "num"
ScoreReaches(r, min) == min.k = "ninf" \/ (min.k = "num" /\ r.Score.v >= min.v)

\* C1: the score view holds exactly the records whose date is in
\* [start_date, end_date], both ends included, whose score is present and
\* whose score is at least the minimum; Oscars play no part.
C1_ScoreViewExact ==
    Serving =>
        \A i \in DOMAIN data :
            (data[i].idx \in Labels(filtered_metacritic))
            <=> /\ InClosedRange(data[i].Date, inputs.start_date, inputs.end_date)
                /\ ScorePresent(data[i])
                /\ ScoreReaches(data[i], inputs.score)

C1_Witness ==
    /\ Serving
    /\ \E i \in DOMAIN filtered_metacritic :
        /\ filtered_metacritic[i].Date = inputs.start_date
        /\ filtered_metacritic[i].Date = inputs.end_date
        /\ filtered_metacritic[i].Score = inputs.score
        /\ filtered_metacritic[i].Oscars < inputs.oscars
    /\ \E i \in DOMAIN data : data[i].idx \notin Labels(filtered_metacritic)

\* C2: the oscars view holds exactly the records whose date is in
\* [start_date, end_date] and whose Oscars Won is at least the minimum,
\* whatever their score (absent or below the minimum score).
C2_OscarsViewExact ==
    Serving =>
        \A i \in DOMAIN data :
            (data[i].idx \in Labels(filtered_oscars))
            <=> /\ InClosedRange(data[i].Date, inputs.start_date, inputs.end_date)
                /\ data[i].Oscars >= inputs.oscars

C2_Witness ==
    /\ Serving
    /\ \E i \in DOMAIN filtered_oscars : ~ScorePresent(filtered_oscars[i])
    /\ \E i \in DOMAIN filtered_oscars :
        /\ ScorePresent(filtered_oscars[i])
        /\ ~ScoreReaches(filtered_oscars[i], inputs.score)

\* C3: a record with an absent score never appears in the scatter series,
\* for every minimum score (-inf included) and every date range.
C3_AbsentScoreNeverPlotted ==
    Serving =>
        /\ \A i \in DOMAIN scatter_figure.y : scatter_figure.y[i].val.k = "num"
        /\ \A i \in DOMAIN data :
            ~ScorePresent(data[i]) =>
                data[i].idx \notin Labels(scatter_figure.x) \cup Labels(scatter_figure.y)

C3_Witness ==
    /\ Serving
    /\ inputs.score = NegInf
    /\ Len(scatter_figure.y) > 0
    /\ \E i \in DOMAIN data :
        /\ ~ScorePresent(data[i])
        /\ InClosedRange(data[i].Date, inputs.start_date, inputs.end_date)

RECURSIVE SumSeq(_)
SumSeq(s) == IF s = <<>> THEN 0 ELSE Head(s) + SumSeq(Tail(s))

\* C4: the histogram counts add up to the size of the oscars view, and the
\* count of each key is the number of records of the view with that value.
C4_HistogramCounts ==
    Serving =>
        /\ Len(histogram_figure.x) = Len(histogram_figure.y)
        /\ SumSeq(histogram_figure.y) = Len(filtered_oscars)
        /\ \A i \in DOMAIN histogram_figure.x :
            histogram_figure.y[i] =
                Cardinality({j \in DOMAIN filtered_oscars :
                                filtered_oscars[j].Oscars = histogram_figure.x[i]})

C4_Witness ==
    /\ Serving
    /\ Len(filtered_oscars) >= 2
    /\ \E i \in DOMAIN histogram_figure.y : histogram_figure.y[i] >= 2

\* C5: the histogram keys are strictly ascending, so each appears once; a key
\* is present only if a record of the oscars view has it; an empty view gives
\* an empty histogram.
C5_HistogramKeys ==
    Serving =>
        /\ \A i, j \in DOMAIN histogram_figure.x :
            i < j => histogram_figure.x[i] < histogram_figure.x[j]
        /\ \A i \in DOMAIN histogram_figure.x :
            /\ histogram_figure.y[i] >= 1
            /\ \E j \in DOMAIN filtered_oscars :
                filtered_oscars[j].Oscars = histogram_figure.x[i]
        /\ (filtered_oscars = <<>> =>
                histogram_figure.x = <<>> /\ histogram_figure.y = <<>>)

C5_Witness ==
    /\ Serving
    /\ Len(histogram_figure.x) >= 2
    /\ \E i, j \in DOMAIN filtered_oscars :
        i < j /\ filtered_oscars[i].Oscars > filtered_oscars[j].Oscars

ScoreBelow(a, b) ==
    \/ a.k = "ninf" /\ b.k = "num"
    \/ a.k = "num" /\ b.k = "num" /\ a.v < b.v

\* Exactly one bound of `to` is wider than in `from`, the others are equal.
Widens(from, to) ==
    \/ /\ ScoreBelow(to.score, from.score)
       /\ to.oscars = from.oscars
       /\ to.start_date = from.start_date
       /\ to.end_date = from.end_date
    \/ /\ to.oscars < from.oscars
       /\ to.score = from.score
       /\ to.start_date = from.start_date
       /\ to.end_date = from.end_date
    \/ /\ DateBefore(to.start_date, from.start_date)
       /\ to.score = from.score
       /\ to.oscars = from.oscars
       /\ to.end_date = from.end_date
    \/ /\ DateBefore(from.end_date, to.end_date)
       /\ to.score = from.score
       /\ to.oscars = from.oscars
       /\ to.start_date = from.start_date

\* C6: a callback whose inputs widen exactly one bound of the previous ones
\* keeps every record of both views and shrinks neither.
C6_Monotone ==
    [][(Serving /\ Serving' /\ Widens(inputs, inputs')) =>
            /\ Labels(filtered_metacritic) \subseteq Labels(filtered_metacritic')
            /\ Labels(filtered_oscars) \subseteq Labels(filtered_oscars')
            /\ Len(filtered_metacritic) <= Len(filtered_metacritic')
            /\ Len(filtered_oscars) <= Len(filtered_oscars')]_vars

\* A view produced by the callback that one widening of the inputs enlarges.
ViewsFor(c) ==
    LET in_range == SelectSeq(data, LAMBDA r : DateInRange(r, c.start_date, c.end_date))
    IN  [score |-> SelectSeq(in_range, LAMBDA r : ScoreAtLeast(r, c.score)),
         oscars |-> SelectSeq(in_range, LAMBDA r : OscarsAtLeast(r, c.oscars))]

C6_Witness ==
    /\ Serving
    /\ Len(filtered_oscars) > 0
    /\ \E v \in ScoreInputs :
        LET wider == [inputs EXCEPT !.score = v]
        IN  /\ Widens(inputs, wider)
            /\ Len(ViewsFor(wider).score) > Len(filtered_metacritic)
    /\ \E v \in Dates :
        LET wider == [inputs EXCEPT !.end_date = v]
        IN  /\ Widens(inputs, wider)
            /\ Len(ViewsFor(wider).oscars) > Len(filtered_oscars)

SortedByDate(df) == \A i, j \in DOMAIN df : i < j => DateLe(df[i].Date, df[j].Date)
TiesInFileOrder(df) ==
    \A i, j \in DOMAIN df : (i < j /\ df[i].Date = df[j].Date) => df[i].idx < df[j].idx

C8_StartupValuesKept ==
    [][(pc = "laidout" \/ pc = "serving") =>
            /\ data' = data
            /\ metacritic_score' = metacritic_score
            /\ oscar_wins' = oscar_wins
            /\ layout' = layout]_vars

C8_Witness ==
    /\ Serving
    /\ ScoreOptions(filtered_metacritic) # metacritic_score
    /\ OscarOptions(filtered_oscars) # oscar_wins
    /\ metacritic_score = ScoreOptions(data)
    /\ oscar_wins = OscarOptions(data)

WellFormed(figure) ==
    /\ DOMAIN figure = {"x", "y"}
    /\ Len(figure.x) = Len(figure.y)
    /\ Len(figure.x) <= Len(data)

\* C9: inputs outside the derived bounds, or a start date after the end
\* date, still give well-formed figures; with start > end both are empty.
C9_OutOfRangeInputs ==
    (/\ Serving
     /\ \/ DateBefore(inputs.end_date, inputs.start_date)
        \/ inputs.score \notin Range(metacritic_score)
        \/ inputs.oscars \notin Range(oscar_wins))
    => /\ WellFormed(scatter_figure)
       /\ WellFormed(histogram_figure)
       /\ (DateBefore(inputs.end_date, inputs.start_date) =>
              scatter_figure = NoFigure /\ histogram_figure = NoFigure)

C9_Witness ==
    /\ Serving
    /\ DateBefore(inputs.end_date, inputs.start_date)
    /\ inputs.score \notin Range(metacritic_score)
    /\ Len(data) = MaxRows
    /\ \A i \in DOMAIN data : ScorePresent(data[i])
    /\ scatter_figure = NoFigure
    /\ histogram_figure = NoFigure

\* C10: startup fails exactly when the dataset is empty, so the callback
\* never runs on an empty dataset and always can on a non-empty one.
C10_StartupFailsIffEmpty ==
    /\ (Serving => Len(data) > 0)
    /\ (pc \in {"laidout", "failed"} => (pc = "failed" <=> Len(csv) = 0))

====
